---- MODULE Spec2Model ----
(***************************************************************************)
(* Habit Tracker CLI (app-template.js): the Habit entity, the week         *)
(* arithmetic, the HabitTracker aggregate and its JSON data file.          *)
(*                                                                         *)
(* Encodings.                                                              *)
(*  - An instant (a JS Date) is its number of milliseconds since           *)
(*    1970-01-01T00:00:00Z.  The local clock is UTC + tz, a fixed offset   *)
(*    (no daylight-saving changes inside the modelled days).               *)
(*  - A 'YYYY-MM-DD' string is the number of the calendar day it names     *)
(*    (days since 1970-01-01); an ISO timestamp is its instant.            *)
(*  - A JS number is a record [t, num, den]: "fin" (the rational num/den), *)
(*    "nan", "inf"; JSON null and undefined are "null" and "undef".        *)
(*  - A text typed by the caller is a string of a small enumerated set.    *)
(***************************************************************************)
EXTENDS Integers, Sequences, FiniteSets, TLC

VARIABLES
    tz,       \* offset of the local clock from UTC, in ms
    now,      \* Date.now(), in ms
    habits,   \* HabitTracker.habits
    user,     \* HabitTracker.user
    file,     \* the content of DATA_FILE
    nextId,   \* the identifiers uuid() has handed out so far
    calls,    \* the calls made on the tracker so far
    last      \* the last call made on the model and what it returned

vars == <<tz, now, habits, user, file, nextId, calls, last>>

(***************************************************************************)
(* Bounds of the model                                                     *)
(***************************************************************************)
MaxHabits == 2
MaxCalls == 4
StartTick == 15
MaxTick == 16
DayLo == 3
DayHi == 11
MaxCompletions == 2

MsPerHour == 60 * 60 * 1000
MsPerDay == 24 * MsPerHour
TickMs == 6 * MsPerHour

TzOffsets == {(0 - 8) * MsPerHour, 0, 7 * MsPerHour}
TimesOfDay == {0, 12 * MsPerHour, MsPerDay - 1}
Instants == {d * MsPerDay + t : d \in DayLo..DayHi, t \in TimesOfDay}

Names == {"Read"}
FrequencyTexts == {"0", "1", "abc"}
IndexTexts == {"0", "1", "-1", "1.5", "", "abc"}

(***************************************************************************)
(* JS numbers                                                              *)
(***************************************************************************)
Fin(n, d) == [t |-> "fin", num |-> n, den |-> d]
Zero == Fin(0, 1)
NaN == [t |-> "nan", num |-> 0, den |-> 1]
Infinity == [t |-> "inf", num |-> 0, den |-> 1]
Null == [t |-> "null", num |-> 0, den |-> 1]

\* Number(text): StringToNumber of the texts the model feeds in
NumberOfText(s) ==
    CASE s = "0" -> Fin(0, 1)
      [] s = "1" -> Fin(1, 1)
      [] s = "2" -> Fin(2, 1)
      [] s = "3" -> Fin(3, 1)
      [] s = "-1" -> Fin(0 - 1, 1)
      [] s = "999" -> Fin(999, 1)
      [] s = "0.5" -> Fin(1, 2)
      [] s = "1.5" -> Fin(3, 2)
      [] s = "" -> Fin(0, 1)
      [] s = " " -> Fin(0, 1)
      [] s = "Infinity" -> Infinity
      [] OTHER -> NaN

\* a text typed by the caller, as a JS value
Text(s) == [t |-> "text", s |-> s]

\* Number(v): a text is parsed, null is 0, a number is itself
Number(v) ==
    IF v.t = "text" THEN NumberOfText(v.s)
    ELSE IF v.t = "null" THEN Zero
    ELSE v

\* a ?? b
Coalesce(a, b) == IF a.t \in {"null", "undef"} THEN b ELSE a

IsNaN(x) == x.t = "nan"

\* x < k, x >= k for an integer k (every comparison with NaN is false)
NumLt(x, k) == x.t = "fin" /\ x.num < k * x.den
NumGe(x, k) == x.t = "inf" \/ (x.t = "fin" /\ x.num >= k * x.den)
\* k >= x for an integer k
IntGe(k, x) == x.t = "fin" /\ k * x.den >= x.num
\* x <= 0
NumLeZero(x) == x.t = "fin" /\ x.num <= 0

IsIntegral(x) == x.t = "fin" /\ x.num % x.den = 0
\* ToIntegerOrInfinity of a finite number: truncation towards zero
Trunc(x) == IF x.num >= 0 THEN x.num \div x.den ELSE 0 - ((0 - x.num) \div x.den)

(***************************************************************************)
(* Utilities                                                               *)
(***************************************************************************)
\* the local wall clock reading of instant t
LocalMs(t) == t + tz

\* Date.prototype.getDay in local time: 0 = Sunday; 1970-01-01 was a Thursday
getDay(t) == ((LocalMs(t) \div MsPerDay) + 4) % 7

\* d.setHours(0,0,0,0)
setHoursMidnight(t) == t - (LocalMs(t) % MsPerDay)

\* formatDate(d): d.toISOString().slice(0, 10), the calendar day in UTC
formatDate(d) == d \div MsPerDay

\* new Date(dateStr + 'T00:00:00'): midnight of that calendar day in local time
ParseLocal(dateStr) == dateStr * MsPerDay - tz

startOfWeekSundayFirst(date) == setHoursMidnight(date - getDay(date) * MsPerDay)

startOfWeek(date) ==
    LET day == (getDay(date) + 6) % 7
    IN  setHoursMidnight(date - day * MsPerDay)

endOfWeek(date) ==
    LET s == startOfWeek(date)
        e == s + 6 * MsPerDay
    IN  setHoursMidnight(e) + (MsPerDay - 1)

(***************************************************************************)
(* Habit                                                                   *)
(***************************************************************************)
\* new Habit(name, targetFrequency), targetFrequency already a JS value
Habit(name, targetFrequency) ==
    [id |-> nextId + 1,
     name |-> name,
     targetFrequency |-> Coalesce(Number(targetFrequency), Zero),
     completions |-> <<>>,
     createdAt |-> now]

includes(seq, x) == \E k \in 1..Len(seq) : seq[k] = x

\* markComplete(date): the habit afterwards, and the value returned
markComplete(h, date) ==
    LET dateStr == formatDate(date)
    IN  IF ~includes(h.completions, dateStr)
        THEN [habit |-> [h EXCEPT !.completions = Append(@, dateStr)], added |-> TRUE]
        ELSE [habit |-> h, added |-> FALSE]

InWeek(d, referenceDate) ==
    LET dt == ParseLocal(d)
    IN  dt >= startOfWeek(referenceDate) /\ dt <= endOfWeek(referenceDate)

getThisWeekCompletions(h, referenceDate) ==
    SelectSeq(h.completions, LAMBDA d : InWeek(d, referenceDate))

isCompletedThisWeek(h, referenceDate) ==
    IntGe(Len(getThisWeekCompletions(h, referenceDate)), h.targetFrequency)

getProgressPercentage(h, referenceDate) ==
    LET done == Len(getThisWeekCompletions(h, referenceDate))
        tf == h.targetFrequency
    IN  IF NumLeZero(tf) THEN Zero
        ELSE IF tf.t = "nan" THEN NaN
        ELSE IF tf.t = "inf" THEN Zero
        ELSE IF done * 100 * tf.den >= 100 * tf.num THEN Fin(100, 1)
        ELSE Fin(done * 100 * tf.den, tf.num)

(***************************************************************************)
(* The record of the last call                                             *)
(***************************************************************************)
NoCall ==
    [op |-> "none", arg |-> "", freq |-> "", result |-> "ok", added |-> FALSE,
     target |-> 0, removed |-> 0, shifted |-> 0, follows |-> "", at |-> 0, date |-> 0,
     saved |-> FALSE, loadFailed |-> FALSE,
     week |-> <<>>, start |-> 0, end |-> 0, completed |-> FALSE, progress |-> Zero]

DefaultUser(t) ==
    [proto |-> "UserProfile", name |-> "User", createdAt |-> t,
     stats |-> [habitsCreated |-> 0, totalCompletions |-> 0]]

NotFound == [kind |-> "NotFound", user |-> DefaultUser(0), habits |-> <<>>]

(***************************************************************************)
(* The Habit entity on its own: one habit, marked complete at arbitrary    *)
(* instants and queried at arbitrary reference instants.                   *)
(***************************************************************************)
InitHabit ==
    /\ tz \in TzOffsets
    /\ now = DayLo * MsPerDay
    /\ nextId = 0
    /\ \E f \in FrequencyTexts :
          habits = <<[id |-> 1, name |-> "Read",
                      targetFrequency |-> Coalesce(Number(Text(f)), Zero),
                      completions |-> <<>>, createdAt |-> DayLo * MsPerDay]>>
    /\ user = DefaultUser(DayLo * MsPerDay)
    /\ file = NotFound
    /\ calls = 0
    /\ last = NoCall

MarkComplete(date) ==
    /\ Len(habits[1].completions) < MaxCompletions
    /\ LET r == markComplete(habits[1], date)
       IN  /\ habits' = <<r.habit>>
           /\ last' = [NoCall EXCEPT !.op = "markComplete", !.date = date,
                                     !.added = r.added, !.target = habits[1].id]
    /\ UNCHANGED <<tz, now, user, file, nextId, calls>>

QueryWeek(referenceDate) ==
    /\ last' = [NoCall EXCEPT !.op = "week", !.at = referenceDate,
                  !.start = startOfWeek(referenceDate),
                  !.end = endOfWeek(referenceDate),
                  !.week = getThisWeekCompletions(habits[1], referenceDate),
                  !.completed = isCompletedThisWeek(habits[1], referenceDate),
                  !.progress = getProgressPercentage(habits[1], referenceDate)]
    /\ UNCHANGED <<tz, now, habits, user, file, nextId, calls>>

NextHabit ==
    \/ \E date \in Instants : MarkComplete(date)
    \/ \E referenceDate \in Instants : QueryWeek(referenceDate)

SpecHabit == InitHabit /\ [][NextHabit]_vars

(***************************************************************************)
(* UserProfile and the data file                                           *)
(***************************************************************************)
RECURSIVE SumCompletions(_)
SumCompletions(hs) ==
    IF hs = <<>> THEN 0
    ELSE Len(Head(hs).completions) + SumCompletions(Tail(hs))

\* UserProfile.updateStats(habits): the stats it leaves
updateStats(hs) ==
    [habitsCreated |-> Len(hs), totalCompletions |-> SumCompletions(hs)]

\* whether this.user.updateStats is a function: only the UserProfile object
\* has the method, an object that came out of JSON.parse does not
HasUpdateStats(u) == u.proto = "UserProfile"

\* JSON.stringify of a number: NaN and Infinity are written as null
JSONNumber(x) == IF x.t = "fin" THEN x ELSE Null

JSONHabit(h) ==
    [isNull |-> FALSE, id |-> h.id, name |-> h.name,
     targetFrequency |-> JSONNumber(h.targetFrequency),
     completions |-> h.completions, createdAt |-> h.createdAt]

NullEntry ==
    [isNull |-> TRUE, id |-> 0, name |-> "",
     targetFrequency |-> Null, completions |-> <<>>, createdAt |-> 0]

\* JSON.stringify({user, habits}): the methods of user are not written
Stringify(u, hs) ==
    [kind |-> "doc",
     user |-> [u EXCEPT !.proto = "Object"],
     habits |-> [k \in 1..Len(hs) |-> JSONHabit(hs[k])]]

\* the map callback of loadFromFile, for an entry that is an object.  The id
\* and createdAt the constructor made are replaced by the entry's own.
RestoreHabit(h) ==
    [id |-> h.id,
     name |-> h.name,
     targetFrequency |-> Coalesce(Number(Coalesce(h.targetFrequency, Zero)), Zero),
     completions |-> h.completions,
     createdAt |-> h.createdAt]

\* the outcomes fs.writeFileSync can have: it writes, or it throws
WriteOutcomes == BOOLEAN

\* saveToFile(): the file is rewritten, or the error is caught and logged
saveToFile(ok, u, hs) == file' = IF ok THEN Stringify(u, hs) ELSE file

SpliceNext(seq, start) ==
    [k \in 1..(Len(seq) - 1) |-> IF k < start + 2 THEN seq[k] ELSE seq[k + 1]]

\* seq.splice(start, 1) for 0 <= start < seq.length: what is left of seq
Splice(seq, start) ==
    [k \in 1..(Len(seq) - 1) |-> IF k < start + 1 THEN seq[k] ELSE seq[k + 1]]

\* a call is made on the tracker
Call ==
    /\ calls < MaxCalls
    /\ calls' = calls + 1

\* the call returns to its caller with ret
Return(ret) == last' = ret

\* the call throws a TypeError at its caller
Throw(ret) == last' = [ret EXCEPT !.result = "threw"]

\* the index check of completeHabit and deleteHabit
IndexRejected(idx) == IsNaN(idx) \/ NumLt(idx, 0) \/ NumGe(idx, Len(habits))

(***************************************************************************)
(* HabitTracker                                                            *)
(***************************************************************************)
\* new HabitTracker() in a process that finds no data file
Init ==
    /\ tz \in TzOffsets
    /\ now = StartTick * TickMs
    /\ nextId = 0
    /\ calls = 0
    /\ habits = <<>>
    /\ user = DefaultUser(now)
    /\ \E ok \in BOOLEAN :
          /\ file = IF ok THEN Stringify(user, habits) ELSE NotFound
          /\ last = [NoCall EXCEPT !.op = "construct", !.at = now, !.saved = ok]

\* this.user.updateStats(hs); this.saveToFile(); return ret
UpdateSaveReturn(hs, ret) ==
    IF HasUpdateStats(user)
    THEN \E ok \in WriteOutcomes :
           /\ user' = [user EXCEPT !.stats = updateStats(hs)]
           /\ saveToFile(ok, user', hs)
           /\ Return([ret EXCEPT !.saved = ok])
    ELSE \* this.user.updateStats is not a function
         /\ Throw(ret)
         /\ UNCHANGED <<user, file>>

AddHabit(name, frequency) ==
    /\ Call
    /\ Len(habits) < MaxHabits
    /\ LET h == Habit(name, Text(frequency))
           hs == Append(habits, h)
       IN  /\ habits' = hs
           /\ nextId' = nextId + 1
           /\ UpdateSaveReturn(hs, [NoCall EXCEPT !.op = "addHabit",
                                      !.freq = frequency, !.target = h.id])
    /\ UNCHANGED <<tz, now>>

CompleteHabit(habitIndex) ==
    LET idx == Number(Text(habitIndex))
        call == [NoCall EXCEPT !.op = "completeHabit", !.arg = habitIndex, !.at = now,
                   !.follows = IF last.op = "deleteHabit" /\ last.arg = habitIndex
                                  /\ last.result # "false"
                               THEN "deleteHabit" ELSE "",
                   !.removed = IF last.op = "deleteHabit" THEN last.removed ELSE 0,
                   !.shifted = IF last.op = "deleteHabit" THEN last.shifted ELSE 0]
    IN  /\ Call
        /\ IF IndexRejected(idx)
           THEN /\ Return([call EXCEPT !.result = "error"])
                /\ UNCHANGED <<habits, user, file>>
           ELSE IF ~IsIntegral(idx)
           THEN \* this.habits[idx] is undefined, habit.markComplete throws
                /\ Throw(call)
                /\ UNCHANGED <<habits, user, file>>
           ELSE LET r == markComplete(habits[idx.num + 1], now)
                    hs == [habits EXCEPT ![idx.num + 1] = r.habit]
                    ret == [call EXCEPT !.added = r.added, !.target = r.habit.id]
                IN  /\ habits' = hs
                    /\ IF r.added
                       THEN UpdateSaveReturn(hs, ret)
                       ELSE /\ Return(ret)
                            /\ UNCHANGED <<user, file>>
        /\ UNCHANGED <<tz, now, nextId>>

DeleteHabit(habitIndex) ==
    LET idx == Number(Text(habitIndex))
        call == [NoCall EXCEPT !.op = "deleteHabit", !.arg = habitIndex]
    IN  /\ Call
        /\ IF IndexRejected(idx)
           THEN /\ Return([call EXCEPT !.result = "false"])
                /\ UNCHANGED <<habits, user, file>>
           ELSE LET start == Trunc(idx)
                    hs == Splice(habits, start)
                IN  /\ habits' = hs
                    /\ UpdateSaveReturn(hs,
                         [call EXCEPT !.result = "true",
                            !.removed = habits[start + 1].id,
                            !.shifted = IF start + 2 <= Len(habits)
                                        THEN habits[start + 2].id ELSE 0])
        /\ UNCHANGED <<tz, now, nextId>>

ClearAllData ==
    /\ Call
    /\ habits' = <<>>
    /\ user' = [DefaultUser(now) EXCEPT !.stats = updateStats(<<>>)]
    /\ \E ok \in WriteOutcomes :
          /\ saveToFile(ok, user', <<>>)
          /\ Return([NoCall EXCEPT !.op = "clearAllData", !.saved = ok])
    /\ UNCHANGED <<tz, now, nextId>>

SaveToFile ==
    /\ Call
    /\ \E ok \in WriteOutcomes :
          /\ saveToFile(ok, user, habits)
          /\ Return([NoCall EXCEPT !.op = "saveToFile", !.saved = ok])
    /\ UNCHANGED <<tz, now, habits, user, nextId>>

HasNullEntry(doc) == \E k \in 1..Len(doc.habits) : doc.habits[k].isNull

\* the process ends and the program is started again: a new UserProfile
\* object, new HabitTracker(), loadFromFile()
Construct ==
    LET call == [NoCall EXCEPT !.op = "construct", !.at = now]
        fresh == DefaultUser(now)
    IN  /\ Call
        /\ CASE file.kind = "NotFound" ->
                  \E ok \in WriteOutcomes :
                     /\ habits' = <<>>
                     /\ user' = fresh
                     /\ saveToFile(ok, fresh, <<>>)
                     /\ last' = [call EXCEPT !.saved = ok]
             [] file.kind = "Malformed" ->
                  \* JSON.parse throws: nothing was assigned yet
                  /\ habits' = <<>>
                  /\ user' = fresh
                  /\ last' = [call EXCEPT !.loadFailed = TRUE]
                  /\ UNCHANGED file
             [] OTHER ->
                  \* user is assigned first; a null entry makes the map callback
                  \* throw before habits is assigned; updateStats is called last
                  /\ user' = file.user
                  /\ habits' = IF HasNullEntry(file) THEN <<>>
                               ELSE [k \in 1..Len(file.habits) |->
                                        RestoreHabit(file.habits[k])]
                  /\ last' = [call EXCEPT !.loadFailed =
                                HasNullEntry(file) \/ ~HasUpdateStats(user')]
                  /\ UNCHANGED file
        /\ UNCHANGED <<tz, now, nextId>>

\* what happens to the data file outside the program
ExternalEdit(kind) ==
    /\ file.kind # kind
    /\ kind = "NullEntry" => file.kind = "doc" /\ ~HasNullEntry(file)
    /\ file' = IF kind = "NullEntry"
               THEN [file EXCEPT !.habits = Append(@, NullEntry)]
               ELSE [NotFound EXCEPT !.kind = kind]
    /\ UNCHANGED <<tz, now, habits, user, nextId, calls, last>>

Tick ==
    /\ now + TickMs <= MaxTick * TickMs
    /\ now' = now + TickMs
    /\ UNCHANGED <<tz, habits, user, file, nextId, calls, last>>

Next ==
    \/ \E name \in Names, frequency \in FrequencyTexts : AddHabit(name, frequency)
    \/ \E habitIndex \in IndexTexts : CompleteHabit(habitIndex)
    \/ \E habitIndex \in IndexTexts : DeleteHabit(habitIndex)
    \/ ClearAllData
    \/ SaveToFile
    \/ Construct
    \/ \E kind \in {"NotFound", "Malformed", "NullEntry"} : ExternalEdit(kind)
    \/ Tick

Spec == Init /\ [][Next]_vars

(***************************************************************************)
(* Properties                                                              *)
(***************************************************************************)
\* the local calendar day of an instant
LocalDay(t) == (t + tz) \div MsPerDay

\* day 4 (1970-01-05) was a Monday
IsMonday(day) == day % 7 = 4

\* the text is the decimal numeral of an integer in [0, n)
IndexNumerals == <<"0", "1", "2", "3">>
IsIndexInRange(s, n) == \E k \in 1..n : k <= Len(IndexNumerals) /\ s = IndexNumerals[k]
IndexOf(s) == (CHOOSE k \in 1..Len(IndexNumerals) : s = IndexNumerals[k]) - 1

CountCompletions(hs) ==
    Cardinality(UNION {{<<k, j>> : j \in 1..Len(hs[k].completions)} : k \in 1..Len(hs)})

Elements(seq) == {seq[k] : k \in 1..Len(seq)}

SameHabits(a, b) ==
    /\ Len(a) = Len(b)
    /\ \A k \in 1..Len(a) :
          /\ a[k].id = b[k].id
          /\ a[k].name = b[k].name
          /\ a[k].targetFrequency = b[k].targetFrequency
          /\ Elements(a[k].completions) = Elements(b[k].completions)
          /\ a[k].createdAt = b[k].createdAt

HabitById(id) == habits[CHOOSE k \in 1..Len(habits) : habits[k].id = id]

IsCall == calls' = calls + 1

\* C1: after addHabit, completeHabit or deleteHabit returns, the profile's
\* stats equal the number of habits and the total number of completions.
C1_StatsInSync ==
    (last.op \in {"addHabit", "completeHabit", "deleteHabit"} /\ last.result # "threw")
    => /\ user.stats.habitsCreated = Len(habits)
       /\ user.stats.totalCompletions = CountCompletions(habits)

\* C2: completeHabit and deleteHabit, given an index that is not an integer in
\* [0, count), return the error result (false for deleteHabit) and change
\* neither the habits, nor the profile, nor the data file.
C2_InvalidIndexRejected ==
    [][(/\ IsCall
        /\ last'.op \in {"completeHabit", "deleteHabit"}
        /\ ~IsIndexInRange(last'.arg, Len(habits)))
       => /\ last'.result = IF last'.op = "completeHabit" THEN "error" ELSE "false"
          /\ habits' = habits
          /\ user' = user
          /\ file' = file]_vars

\* C3: no call on the tracker throws.
C3_NoThrow == last.result # "threw"

\* C4: two markComplete calls in a row with instants of the same local
\* calendar day append at most one completion.
C4_SameLocalDayOnce ==
    [][(/\ last.op = "markComplete"
        /\ last'.op = "markComplete"
        /\ LocalDay(last.date) = LocalDay(last'.date))
       => ~(last.added /\ last'.added)]_vars

\* C5: startOfWeek(r) is a Monday at local midnight, not after r and at most
\* six days before r's day; endOfWeek(r) is the last millisecond of the Sunday
\* six days later; getThisWeekCompletions(r) is, in insertion order, exactly
\* the completions whose calendar day is one of these seven days.
C5_WeekWindow ==
    last.op = "week"
    => LET monday == LocalDay(last.start)
       IN  /\ (last.start + tz) % MsPerDay = 0
           /\ IsMonday(monday)
           /\ last.start <= last.at
           /\ LocalDay(last.at) - monday \in 0..6
           /\ last.end = last.start + 7 * MsPerDay - 1
           /\ last.week = SelectSeq(habits[1].completions,
                                    LAMBDA d : d >= monday /\ d <= monday + 6)

\* a week query, not made on a Monday, that keeps one completion and drops another
C5_Witness ==
    /\ last.op = "week"
    /\ tz # 0
    /\ LocalDay(last.at) # LocalDay(last.start)
    /\ Len(last.week) >= 1
    /\ Len(last.week) < Len(habits[1].completions)

C7_RoundTrip ==
    [][(/\ IsCall
        /\ last'.op = "construct"
        /\ file = Stringify(user, habits))
       => SameHabits(habits, habits')]_vars

\* C8: a habit added with a non-numeric frequency has targetFrequency 0, is
\* completed this week, has progress 0 and no completions.
C8_NonNumericIsZero ==
    (last.op = "addHabit" /\ last.freq \in {"abc"})
    => LET h == HabitById(last.target)
       IN  /\ h.targetFrequency = Zero
           /\ isCompletedThisWeek(h, now)
           /\ getProgressPercentage(h, now) = Zero
           /\ h.completions = <<>>

\* C9: when loading fails although the data file exists, the tracker holds no
\* habits and the default profile.
C9_FailedLoadIsEmpty ==
    (last.op = "construct" /\ last.loadFailed)
    => /\ habits = <<>>
       /\ user = DefaultUser(last.at)

\* C10: the completion completeHabit has just recorded is one of the habit's
\* completions of the week of that instant.
C10_CompletionInThisWeek ==
    (last.op = "completeHabit" /\ last.result = "ok" /\ last.added)
    => includes(getThisWeekCompletions(HabitById(last.target), last.at),
                formatDate(last.at))

====
